---- MODULE Spec2Model ----
(***************************************************************************)
(* State-machine model of the Repeater plugin (plugins/Repeater/main.py):  *)
(* the per-chat ChatSession objects, the chat_sessions store, the inbound  *)
(* message handler that suspends at the outbound send, and the retraction  *)
(* handler that suspends at the outbound retract call.                     *)
(***************************************************************************)
EXTENDS Integers, Sequences, FiniteSets, TLC

VARIABLES
    enable,             \* Repeater.enable
    enable_in_group,    \* Repeater.enable_in_group
    enable_in_private,  \* Repeater.enable_in_private
    chat_sessions,      \* Repeater.chat_sessions: wxid -> reference to a ChatSession
    sessions,           \* the live ChatSession objects, by object identity
    next_sid,           \* identity the next constructed ChatSession gets
    now,                \* the clock read by time.time()
    n_msgs,             \* inbound events delivered so far (the transport's NewMsgId source)
    send_calls,         \* outbound send calls in issue order; a "pending" entry is a
                        \* handler suspended at its await, with the locals it resumes with
    n_revokes,          \* retraction events delivered so far
    revoke_calls,       \* outbound retract calls in issue order
    ret,                \* how the handler invocation that finished last ended
    appended            \* WindowSpec only: every record given to add_message so far

vars == <<enable, enable_in_group, enable_in_private, chat_sessions, sessions,
          next_sid, now, n_msgs, send_calls, n_revokes, revoke_calls, ret, appended>>

----------------------------------------------------------------------------
(* Bounds of the model. *)

MaxMsgs == 3        \* inbound events per run
MaxRevokes == 2     \* retraction events per run
MaxTime == 3        \* last clock value
MaxHistory == 2     \* the configured max_history
CacheTimeout == 1   \* the configured cache_timeout, in clock ticks

(* Configuration defaults of the plugin. *)
MinRepeatCount == 2
MinDifferentUsers == 2

(* Input domains. *)
BotWxid == "bot"
Chats == {"g1", "p1"}
Texts == {"", "hi"}          \* values of Content.strip()
Md5s == {"m1"}
(* The inbound events: a and b write texts and stickers in the group g1,  *)
(* where the bot's own "hi" may be mirrored back; the peer of the private *)
(* chat p1 writes "hi".                                                   *)
TextEvents ==
    {<<"g1", s, t>> : s \in {"a", "b"}, t \in Texts}
        \cup {<<"g1", BotWxid, "hi">>, <<"p1", "p1", "hi">>}
EmojiEvents == {<<"g1", s, m>> : s \in {"a", "b"}, m \in Md5s}
Senders == {e[2] : e \in TextEvents \cup EmojiEvents}
Contents == Texts \cup {"emoji:" \o m : m \in Md5s}
Thresholds == 0 .. 3

IsGroup(wxid) == wxid = "g1"

None == [none |-> TRUE]      \* Python's None

----------------------------------------------------------------------------
(* class ChatSession *)

ChatSession(max_history) ==
    [messages |-> << >>, max_history |-> max_history,
     repeated_contents |-> {}, repeated_msgs |-> << >>]

(* add_message removing the newest record instead of the oldest: pop(). *)
add_message_pop_newest(session, msg_info) ==
    LET messages == Append(session.messages, msg_info)
    IN  [session EXCEPT !.messages =
            IF Len(messages) > session.max_history
            THEN SubSeq(messages, 1, Len(messages) - 1) ELSE messages]

add_message(session, msg_info) ==
    LET messages == Append(session.messages, msg_info)
    IN  [session EXCEPT !.messages =
            IF Len(messages) > session.max_history THEN Tail(messages) ELSE messages]

(* The loop of should_repeat: after the first i records, the running       *)
(* same_content_count and senders.                                         *)
RECURSIVE same_content_scan(_, _, _)
same_content_scan(messages, content, i) ==
    IF i = 0 THEN [same_content_count |-> 0, senders |-> {}]
    ELSE LET before == same_content_scan(messages, content, i - 1)
         IN  IF messages[i].content = content
             THEN [same_content_count |-> before.same_content_count + 1,
                   senders |-> before.senders \cup {messages[i].sender_wxid}]
             ELSE before

(* should_repeat comparing the count with > instead of >=. *)
should_repeat_strict_count(session, content, bot_wxid, min_repeat_count, min_users) ==
    IF content \in session.repeated_contents THEN FALSE
    ELSE LET scan == same_content_scan(session.messages, content, Len(session.messages))
         IN  /\ scan.same_content_count > min_repeat_count
             /\ Cardinality(scan.senders) >= min_users
             /\ bot_wxid \notin scan.senders

(* should_repeat without its first test, the repeated_contents lookup. *)
should_repeat_no_lookup(session, content, bot_wxid, min_repeat_count, min_users) ==
    LET scan == same_content_scan(session.messages, content, Len(session.messages))
    IN  /\ scan.same_content_count >= min_repeat_count
        /\ Cardinality(scan.senders) >= min_users
        /\ bot_wxid \notin scan.senders

(* should_repeat without its last test, the bot_wxid not in senders. *)
should_repeat_no_self_check(session, content, bot_wxid, min_repeat_count, min_users) ==
    IF content \in session.repeated_contents THEN FALSE
    ELSE LET scan == same_content_scan(session.messages, content, Len(session.messages))
         IN  /\ scan.same_content_count >= min_repeat_count
             /\ Cardinality(scan.senders) >= min_users

(* should_repeat counting the records where it should count the senders. *)
should_repeat_no_diversity(session, content, bot_wxid, min_repeat_count, min_users) ==
    IF content \in session.repeated_contents THEN FALSE
    ELSE LET scan == same_content_scan(session.messages, content, Len(session.messages))
         IN  /\ scan.same_content_count >= min_repeat_count
             /\ scan.same_content_count >= min_users
             /\ bot_wxid \notin scan.senders

should_repeat(session, content, bot_wxid, min_repeat_count, min_users) ==
    IF content \in session.repeated_contents THEN FALSE
    ELSE LET scan == same_content_scan(session.messages, content, Len(session.messages))
         IN  /\ scan.same_content_count >= min_repeat_count
             /\ Cardinality(scan.senders) >= min_users
             /\ bot_wxid \notin scan.senders

(* A dict is truthy when it is not None and not empty. *)
Truthy(revoke_info) == revoke_info # None /\ DOMAIN revoke_info # {}

PutItem(dict, key, value) ==
    [k \in DOMAIN dict \cup {key} |-> IF k = key THEN value ELSE dict[k]]

mark_as_repeated(session, content, revoke_info) ==
    LET added == [session EXCEPT !.repeated_contents = @ \cup {content}]
    IN  IF Truthy(revoke_info)
        THEN [added EXCEPT !.repeated_msgs = PutItem(@, content, revoke_info)]
        ELSE added

is_content_repeated(session, content) == content \in session.repeated_contents

(* reversed(self.messages): the newest record with that new_msg_id. *)
RECURSIVE find_from(_, _, _)
find_from(messages, new_msg_id, i) ==
    IF i = 0 THEN None
    ELSE IF messages[i].new_msg_id = new_msg_id THEN messages[i]
    ELSE find_from(messages, new_msg_id, i - 1)

(* find_message_by_new_msg_id falling back to the newest record when no   *)
(* record has the id.                                                     *)
find_message_or_newest(session, new_msg_id) ==
    LET found == find_from(session.messages, new_msg_id, Len(session.messages))
    IN  IF found = None /\ session.messages # << >>
        THEN session.messages[Len(session.messages)] ELSE found

find_message_by_new_msg_id(session, new_msg_id) ==
    find_from(session.messages, new_msg_id, Len(session.messages))

get_repeated_msg_info(session, content) ==
    IF content \in DOMAIN session.repeated_msgs
    THEN session.repeated_msgs[content] ELSE None

----------------------------------------------------------------------------
(* class Repeater: the session store *)

RECURSIVE max_timestamp(_, _)
max_timestamp(messages, i) ==
    IF i = 1 THEN messages[1].timestamp
    ELSE LET rest == max_timestamp(messages, i - 1)
         IN  IF messages[i].timestamp > rest THEN messages[i].timestamp ELSE rest

(* is_expired comparing the age with >= instead of >. *)
is_expired_at_timeout(session, current_time) ==
    IF session.messages = << >> THEN TRUE
    ELSE current_time - max_timestamp(session.messages, Len(session.messages))
            >= CacheTimeout

is_expired(session, current_time) ==
    IF session.messages = << >> THEN TRUE
    ELSE current_time - max_timestamp(session.messages, Len(session.messages))
            > CacheTimeout

(* _clean_expired_sessions without its second loop: nothing is deleted. *)
_clean_expired_sessions_keeps_all(store, heap, current_time) == store

(* _clean_expired_sessions: the store without the expired wxids. *)
_clean_expired_sessions(store, heap, current_time) ==
    LET expired_wxids == {wxid \in DOMAIN store : is_expired(heap[store[wxid]], current_time)}
    IN  [wxid \in DOMAIN store \ expired_wxids |-> store[wxid]]

(* _get_or_create_session without the membership test: always a new       *)
(* ChatSession.                                                            *)
_get_or_create_session_always_new(store, heap, wxid, fresh) ==
    [store |-> PutItem(store, wxid, fresh),
     heap |-> PutItem(heap, fresh, ChatSession(MaxHistory)),
     sid |-> fresh]

(* _get_or_create_session: the store and the heap afterwards, and the      *)
(* identity of the session returned.                                       *)
_get_or_create_session(store, heap, wxid, fresh) ==
    IF wxid \notin DOMAIN store
    THEN [store |-> PutItem(store, wxid, fresh),
          heap |-> PutItem(heap, fresh, ChatSession(MaxHistory)),
          sid |-> fresh]
    ELSE [store |-> store, heap |-> heap, sid |-> store[wxid]]

(* _should_process_message without the chat-type tests. *)
_should_process_message_any_type(is_group) == enable

_should_process_message(is_group) ==
    IF ~enable THEN FALSE
    ELSE IF (is_group /\ ~enable_in_group) \/ (~is_group /\ ~enable_in_private) THEN FALSE
    ELSE TRUE

(* Reference counting: a ChatSession lives while the store or a suspended  *)
(* handler's local variable refers to it.                                  *)
Pending(calls) == {i \in DOMAIN calls : calls[i].status = "pending"}

Collect(heap, store, sends) ==
    LET live == {store[w] : w \in DOMAIN store}
                    \cup {sends[i].sid : i \in Pending(sends)}
    IN  [sid \in DOMAIN heap \cap live |-> heap[sid]]

----------------------------------------------------------------------------
(* The transport (WechatAPIClient) *)

(* What send_text_message / send_emoji_message return for the k-th send. *)
SendReply(k, at) == [msg_id |-> k, create_time |-> at, new_msg_id |-> 100 + k]

----------------------------------------------------------------------------

(* How a handler invocation ends: with return True, or with an exception *)
(* that leaves the handler.                                               *)
NoneYet == "no handler finished yet"
ReturnTrue == "return True"
Propagated == "exception"

Init ==
    /\ enable \in BOOLEAN
    /\ enable_in_group \in BOOLEAN
    /\ enable_in_private \in BOOLEAN
    /\ chat_sessions = << >>
    /\ sessions = << >>
    /\ next_sid = 1
    /\ now = 1
    /\ n_msgs = 0
    /\ send_calls = << >>
    /\ n_revokes = 0
    /\ revoke_calls = << >>
    /\ ret = NoneYet
    /\ appended = << >>

(* time passes *)
Tick ==
    /\ now < MaxTime
    /\ now' = now + 1
    /\ UNCHANGED <<enable, enable_in_group, enable_in_private, chat_sessions, sessions,
                   next_sid, n_msgs, send_calls, n_revokes, revoke_calls, ret, appended>>

(* _handle_message_common, from its entry to the await of the send (or to  *)
(* its return when nothing is sent): gate, sweep, resolve the session,     *)
(* append, then decide.                                                    *)
_handle_message_common(from_wxid, sender_wxid, content, is_emoji, new_msg_id) ==
    /\ n_msgs < MaxMsgs
    /\ n_msgs' = n_msgs + 1
    /\ UNCHANGED <<enable, enable_in_group, enable_in_private, now, n_revokes, revoke_calls,
                   appended>>
    /\ IF ~_should_process_message(IsGroup(from_wxid))
       THEN /\ ret' = ReturnTrue
            /\ UNCHANGED <<chat_sessions, sessions, next_sid, send_calls>>
       ELSE LET current_time == now
                swept == _clean_expired_sessions(chat_sessions, sessions, current_time)
                got == _get_or_create_session(swept, sessions, from_wxid, next_sid)
                msg_info == [content |-> content, sender_wxid |-> sender_wxid,
                             timestamp |-> current_time, new_msg_id |-> new_msg_id,
                             is_emoji |-> is_emoji]
                session == add_message(got.heap[got.sid], msg_info)
                heap == [got.heap EXCEPT ![got.sid] = session]
            IN  /\ chat_sessions' = got.store
                /\ next_sid' = IF got.sid = next_sid THEN next_sid + 1 ELSE next_sid
                /\ IF is_content_repeated(session, content)
                   THEN /\ ret' = ReturnTrue
                        /\ send_calls' = send_calls
                   ELSE IF should_repeat(session, content, BotWxid,
                                         MinRepeatCount, MinDifferentUsers)
                   THEN /\ ret' = ret
                        /\ send_calls' = Append(send_calls,
                              [from_wxid |-> from_wxid, content |-> content,
                               is_emoji |-> is_emoji, sid |-> got.sid,
                               create_time |-> now, status |-> "pending",
                               revoke_info |-> None])
                   ELSE /\ ret' = ReturnTrue
                        /\ send_calls' = send_calls
                /\ sessions' = Collect(heap, got.store, send_calls')

handle_text(from_wxid, sender_wxid, Content, NewMsgId) ==
    _handle_message_common(from_wxid, sender_wxid, Content, FALSE, NewMsgId)

handle_emoji(from_wxid, sender_wxid, Md5, NewMsgId) ==
    _handle_message_common(from_wxid, sender_wxid, "emoji:" \o Md5, TRUE, NewMsgId)

(* after_try with no except clause: the error leaves the handler. *)
after_try_uncaught(raised) == IF raised THEN Propagated ELSE ReturnTrue

(* What the handler returns once the try statement around the send is     *)
(* left: the except clause absorbs the error and return True follows.      *)
after_try(raised) == ReturnTrue

(* the awaited send returns: mark_as_repeated with the identifiers, return *)
send_returns(i) ==
    /\ i \in Pending(send_calls)
    /\ LET call == send_calls[i]
           reply == SendReply(i, now)
           revoke_info == [msg_id |-> reply.msg_id,
                           create_time |-> IF call.is_emoji THEN call.create_time
                                           ELSE reply.create_time,
                           new_msg_id |-> reply.new_msg_id]
           session == mark_as_repeated(sessions[call.sid], call.content, revoke_info)
       IN  /\ send_calls' = [send_calls EXCEPT ![i].status = "ok",
                                               ![i].revoke_info = revoke_info]
           /\ sessions' = Collect([sessions EXCEPT ![call.sid] = session],
                                  chat_sessions, send_calls')
    /\ ret' = after_try(FALSE)
    /\ UNCHANGED <<enable, enable_in_group, enable_in_private, chat_sessions,
                   next_sid, now, n_msgs, n_revokes, revoke_calls, appended>>

(* send_raises marking the content on the way out, as a finally clause   *)
(* calling mark_as_repeated(content) would.                               *)
send_raises_marking(i) ==
    /\ i \in Pending(send_calls)
    /\ send_calls' = [send_calls EXCEPT ![i].status = "failed"]
    /\ sessions' = Collect([sessions EXCEPT ![send_calls[i].sid] =
                                mark_as_repeated(@, send_calls[i].content, None)],
                           chat_sessions, send_calls')
    /\ ret' = after_try(TRUE)
    /\ UNCHANGED <<enable, enable_in_group, enable_in_private, chat_sessions,
                   next_sid, now, n_msgs, n_revokes, revoke_calls, appended>>

(* the awaited send raises: the except clause logs, nothing is marked *)
send_raises(i) ==
    /\ i \in Pending(send_calls)
    /\ send_calls' = [send_calls EXCEPT ![i].status = "failed"]
    /\ sessions' = Collect(sessions, chat_sessions, send_calls')
    /\ ret' = after_try(TRUE)
    /\ UNCHANGED <<enable, enable_in_group, enable_in_private, chat_sessions,
                   next_sid, now, n_msgs, n_revokes, revoke_calls, appended>>

RevokeResults == {"true", "false", "raised"}

(* What handle_revoke returns once the try statement around the retract   *)
(* call is left: each result is logged and return True follows.            *)
after_revoke(result) == ReturnTrue

(* handle_revoke calling revoke_message a second time when the first call *)
(* returns false.                                                          *)
handle_revoke_retrying(from_wxid, new_msg_id) ==
    /\ n_revokes < MaxRevokes
    /\ n_revokes' = n_revokes + 1
    /\ UNCHANGED <<enable, enable_in_group, enable_in_private, chat_sessions, sessions,
                   next_sid, now, n_msgs, send_calls, appended>>
    /\ IF ~enable \/ new_msg_id = 0 \/ from_wxid = "" \/ from_wxid \notin DOMAIN chat_sessions
       THEN revoke_calls' = revoke_calls /\ ret' = ReturnTrue
       ELSE LET session == sessions[chat_sessions[from_wxid]]
                revoked_msg == find_message_by_new_msg_id(session, new_msg_id)
                content == IF revoked_msg # None THEN revoked_msg.content ELSE ""
                msg_info == get_repeated_msg_info(session, content)
                call == [from_wxid |-> from_wxid, msg_id |-> msg_info.msg_id,
                         create_time |-> msg_info.create_time,
                         new_msg_id |-> msg_info.new_msg_id]
            IN  IF revoked_msg # None /\ content # "" /\ Truthy(msg_info)
                THEN \E result \in RevokeResults :
                        /\ ret' = after_revoke(result)
                        /\ revoke_calls' = IF result = "false"
                                           THEN Append(Append(revoke_calls, call), call)
                                           ELSE Append(revoke_calls, call)
                ELSE revoke_calls' = revoke_calls /\ ret' = ReturnTrue

(* handle_revoke that makes no retract call for an echo it has already    *)
(* asked the transport to retract.                                         *)
handle_revoke_once(from_wxid, new_msg_id) ==
    /\ n_revokes < MaxRevokes
    /\ n_revokes' = n_revokes + 1
    /\ UNCHANGED <<enable, enable_in_group, enable_in_private, chat_sessions, sessions,
                   next_sid, now, n_msgs, send_calls, appended>>
    /\ IF ~enable \/ new_msg_id = 0 \/ from_wxid = "" \/ from_wxid \notin DOMAIN chat_sessions
       THEN revoke_calls' = revoke_calls /\ ret' = ReturnTrue
       ELSE LET session == sessions[chat_sessions[from_wxid]]
                revoked_msg == find_message_by_new_msg_id(session, new_msg_id)
                content == IF revoked_msg # None THEN revoked_msg.content ELSE ""
                msg_info == get_repeated_msg_info(session, content)
                call == [from_wxid |-> from_wxid, msg_id |-> msg_info.msg_id,
                         create_time |-> msg_info.create_time,
                         new_msg_id |-> msg_info.new_msg_id]
            IN  IF /\ revoked_msg # None /\ content # "" /\ Truthy(msg_info)
                   /\ \A k \in DOMAIN revoke_calls : revoke_calls[k] # call
                THEN /\ revoke_calls' = Append(revoke_calls, call)
                     /\ \E result \in RevokeResults : ret' = after_revoke(result)
                ELSE revoke_calls' = revoke_calls /\ ret' = ReturnTrue

(* handle_revoke. What follows the awaited retract call (the two log      *)
(* branches and the except clause) reads and writes nothing but the log,   *)
(* so the call and its result are one step.                                *)
handle_revoke(from_wxid, new_msg_id) ==
    /\ n_revokes < MaxRevokes
    /\ n_revokes' = n_revokes + 1
    /\ UNCHANGED <<enable, enable_in_group, enable_in_private, chat_sessions, sessions,
                   next_sid, now, n_msgs, send_calls, appended>>
    /\ IF ~enable
       THEN revoke_calls' = revoke_calls /\ ret' = ReturnTrue
       ELSE IF new_msg_id = 0 \/ from_wxid = ""
       THEN revoke_calls' = revoke_calls /\ ret' = ReturnTrue
       ELSE IF from_wxid \notin DOMAIN chat_sessions
       THEN revoke_calls' = revoke_calls /\ ret' = ReturnTrue
       ELSE LET session == sessions[chat_sessions[from_wxid]]
                revoked_msg == find_message_by_new_msg_id(session, new_msg_id)
                content == IF revoked_msg # None THEN revoked_msg.content ELSE ""
                msg_info == get_repeated_msg_info(session, content)
            IN  IF revoked_msg # None /\ content # "" /\ Truthy(msg_info)
                THEN /\ revoke_calls' = Append(revoke_calls,
                            [from_wxid |-> from_wxid, msg_id |-> msg_info.msg_id,
                             create_time |-> msg_info.create_time,
                             new_msg_id |-> msg_info.new_msg_id])
                     /\ \E result \in RevokeResults : ret' = after_revoke(result)
                ELSE revoke_calls' = revoke_calls /\ ret' = ReturnTrue

NewMsgIds == {n_msgs + 1}        \* the transport numbers the events it delivers

Next ==
    \/ Tick
    \/ \E e \in TextEvents, id \in NewMsgIds : handle_text(e[1], e[2], e[3], id)
    \/ \E e \in EmojiEvents, id \in NewMsgIds : handle_emoji(e[1], e[2], e[3], id)
    \/ \E i \in DOMAIN send_calls : send_returns(i)
    \/ \E i \in DOMAIN send_calls : send_raises(i)
    \/ \E w \in Chats \cup {""}, id \in 0 .. n_msgs : handle_revoke(w, id)

Spec == Init /\ [][Next]_vars

----------------------------------------------------------------------------
(* ChatSession.add_message on its own: one fresh ChatSession (object 1),   *)
(* built with any max_history up to MaxHistory + 1, and records appended   *)
(* to it one by one.                                                       *)

MaxAppends == 5
WindowRecords ==
    {[content |-> c, sender_wxid |-> s, timestamp |-> 1, new_msg_id |-> 0, is_emoji |-> FALSE]
        : c \in Texts, s \in {"a", "b"}}

WindowInit ==
    /\ enable = TRUE /\ enable_in_group = TRUE /\ enable_in_private = TRUE
    /\ chat_sessions = << >>
    /\ \E max_history \in 1 .. MaxHistory + 1 : sessions = <<ChatSession(max_history)>>
    /\ next_sid = 2
    /\ now = 1
    /\ n_msgs = 0
    /\ send_calls = << >>
    /\ n_revokes = 0
    /\ revoke_calls = << >>
    /\ ret = NoneYet
    /\ appended = << >>

WindowAppend(msg_info) ==
    /\ Len(appended) < MaxAppends
    /\ sessions' = [sessions EXCEPT ![1] = add_message(@, msg_info)]
    /\ appended' = Append(appended, msg_info)
    /\ UNCHANGED <<enable, enable_in_group, enable_in_private, chat_sessions, next_sid,
                   now, n_msgs, send_calls, n_revokes, revoke_calls, ret>>

WindowNext == \E msg_info \in WindowRecords : WindowAppend(msg_info)

WindowSpec == WindowInit /\ [][WindowNext]_vars
----------------------------------------------------------------------------
(* The plugin from the moment its first echo is done: at time 1, a and b   *)
(* wrote "hi" in the group g1, the echo was sent and the send returned.    *)
(* The two records carry ids above those of the messages to come.          *)

EarlierRecord(sender_wxid, new_msg_id) ==
    [content |-> "hi", sender_wxid |-> sender_wxid, timestamp |-> 1,
     new_msg_id |-> new_msg_id, is_emoji |-> FALSE]

EchoedSession ==
    mark_as_repeated(
        add_message(add_message(ChatSession(MaxHistory), EarlierRecord("a", MaxMsgs + 1)),
                    EarlierRecord("b", MaxMsgs + 2)),
        "hi", SendReply(1, 1))

EchoedInit ==
    /\ enable = TRUE /\ enable_in_group = TRUE /\ enable_in_private \in BOOLEAN
    /\ chat_sessions = [wxid \in {"g1"} |-> 1]
    /\ sessions = <<EchoedSession>>
    /\ next_sid = 2
    /\ now = 1
    /\ n_msgs = 0
    /\ send_calls = <<[from_wxid |-> "g1", content |-> "hi", is_emoji |-> FALSE, sid |-> 1,
                       create_time |-> 1, status |-> "ok", revoke_info |-> SendReply(1, 1)]>>
    /\ n_revokes = 0
    /\ revoke_calls = << >>
    /\ ret = ReturnTrue
    /\ appended = << >>

EchoedSpec == EchoedInit /\ [][Next]_vars

----------------------------------------------------------------------------
(* The claims. *)

SendsFor(calls, sid, content) ==
    {i \in DOMAIN calls : calls[i].sid = sid /\ calls[i].content = content}

SameContent(session, content) ==
    {i \in DOMAIN session.messages : session.messages[i].content = content}

SendersOf(session, content) ==
    {session.messages[i].sender_wxid : i \in SameContent(session, content)}

(* C1: for any one session and any one content, at most one echo send is   *)
(* issued during the session's lifetime, whatever the interleaving of the  *)
(* handlers suspended at their sends.                                      *)
C1_AtMostOneEchoSend ==
    \A i, j \in DOMAIN send_calls :
        (send_calls[i].sid = send_calls[j].sid
            /\ send_calls[i].content = send_calls[j].content) => i = j

(* C2: should_repeat is true exactly when the content is not in the        *)
(* echoed set, at least min_repeat_count window records have that content, *)
(* they come from at least min_users distinct senders, and the bot is not  *)
(* one of them; for every session reached and every content, bot id and    *)
(* pair of thresholds.                                                     *)
C2_ShouldRepeatIff ==
    \A sid \in DOMAIN sessions :
        \A content \in Contents, bot_wxid \in {BotWxid, "a"}, min_repeat_count \in Thresholds,
           min_users \in Thresholds :
            should_repeat(sessions[sid], content, bot_wxid, min_repeat_count, min_users)
            <=> /\ content \notin sessions[sid].repeated_contents
                /\ Cardinality(SameContent(sessions[sid], content)) >= min_repeat_count
                /\ Cardinality(SendersOf(sessions[sid], content)) >= min_users
                /\ bot_wxid \notin SendersOf(sessions[sid], content)

(* C2's case: a window that meets both default thresholds without the bot, *)
(* beside a session where the same call is refused for the count alone.    *)
C2_Witness ==
    \E sid \in DOMAIN sessions :
        /\ should_repeat(sessions[sid], "hi", BotWxid, MinRepeatCount, MinDifferentUsers)
        /\ ~should_repeat(sessions[sid], "hi", BotWxid, MinRepeatCount + 1, MinDifferentUsers)

(* C3: a content once marked echoed stays in the session's echoed set      *)
(* while the session object lives, should_repeat is false for it under any *)
(* thresholds before and after every step, and no step issues a send for   *)
(* it in that session.                                                     *)
C3_Permanence ==
    [][\A sid \in DOMAIN sessions : \A c \in sessions[sid].repeated_contents :
        /\ sid \in DOMAIN sessions' => c \in sessions'[sid].repeated_contents
        /\ \A min_repeat_count \in Thresholds, min_users \in Thresholds :
            /\ ~should_repeat(sessions[sid], c, BotWxid, min_repeat_count, min_users)
            /\ sid \in DOMAIN sessions' =>
                ~should_repeat(sessions'[sid], c, BotWxid, min_repeat_count, min_users)
        /\ SendsFor(send_calls', sid, c) = SendsFor(send_calls, sid, c)]_vars

(* C3's case: the content was echoed once, a later record of it has come,  *)
(* the window is full of that content from two senders, and there has been *)
(* no second send.                                                         *)
C3_Witness ==
    \E w \in DOMAIN chat_sessions : \E c \in Contents :
        LET session == sessions[chat_sessions[w]]
        IN  /\ c \in session.repeated_contents
            /\ Cardinality(SendsFor(send_calls, chat_sessions[w], c)) = 1
            /\ Len(session.messages) = MaxHistory
            /\ \A i \in DOMAIN session.messages : session.messages[i].content = c
            /\ \E i \in DOMAIN session.messages : session.messages[i].new_msg_id > 2
            /\ Cardinality(SendersOf(session, c)) >= MinDifferentUsers

LastN(seq, n) == SubSeq(seq, Len(seq) - n + 1, Len(seq))
Min(a, b) == IF a < b THEN a ELSE b

(* C4: a window never holds more than max_history records, and after N     *)
(* appends to a fresh session it is exactly the last min(N, max_history)   *)
(* records appended, in arrival order.                                     *)
C4_WindowBoundFifo ==
    \A sid \in DOMAIN sessions :
        /\ Len(sessions[sid].messages) <= sessions[sid].max_history
        /\ sessions[sid].messages =
                LastN(appended, Min(Len(appended), sessions[sid].max_history))

(* C4's case: more appends than the window holds, the dropped and the kept *)
(* records different.                                                      *)
C4_Witness ==
    /\ 1 \in DOMAIN sessions
    /\ sessions[1].max_history >= 2
    /\ Len(appended) > sessions[1].max_history + 1
    /\ Len(sessions[1].messages) = sessions[1].max_history
    /\ appended[1] # appended[Len(appended)]
    /\ appended[1] # appended[2]

(* In the plugin itself every window stays within the configured bound. *)
WindowBound == \A sid \in DOMAIN sessions : Len(sessions[sid].messages) <= MaxHistory

----------------------------------------------------------------------------
(* The newest window record with that message id, found without the scan. *)
WithId(session, new_msg_id) ==
    {i \in DOMAIN session.messages : session.messages[i].new_msg_id = new_msg_id}

NewestWithId(session, new_msg_id) ==
    session.messages[CHOOSE i \in WithId(session, new_msg_id) :
                        \A j \in WithId(session, new_msg_id) : j <= i]

RetractCall(w, info) ==
    [from_wxid |-> w, msg_id |-> info.msg_id, create_time |-> info.create_time,
     new_msg_id |-> info.new_msg_id]

(* C5: a retraction naming the id of a window record whose content has     *)
(* echo metadata issues exactly one retract call, to that chat, with the   *)
(* three identifiers mark_as_repeated stored for that content.             *)
C5_RetractEchoed ==
    [][\A w \in Chats, id \in 0 .. MaxMsgs :
        (/\ handle_revoke(w, id)
         /\ w \in DOMAIN chat_sessions
         /\ WithId(sessions[chat_sessions[w]], id) # {}
         /\ NewestWithId(sessions[chat_sessions[w]], id).content
                \in DOMAIN sessions[chat_sessions[w]].repeated_msgs)
        => LET session == sessions[chat_sessions[w]]
               content == NewestWithId(session, id).content
           IN  revoke_calls' =
                   Append(revoke_calls, RetractCall(w, session.repeated_msgs[content]))]_vars

(* C6: a retraction for a chat without a session, for an id no window      *)
(* record has, or for a record whose content has no echo metadata issues   *)
(* no retract call, changes nothing and returns True.                      *)
LookupMiss(w, id) ==
    \/ w \notin DOMAIN chat_sessions
    \/ /\ w \in DOMAIN chat_sessions
       /\ \/ WithId(sessions[chat_sessions[w]], id) = {}
          \/ /\ WithId(sessions[chat_sessions[w]], id) # {}
             /\ NewestWithId(sessions[chat_sessions[w]], id).content
                    \notin DOMAIN sessions[chat_sessions[w]].repeated_msgs

C6_MissIsNoOp ==
    [][\A w \in Chats \cup {""}, id \in 0 .. MaxMsgs :
        handle_revoke(w, id) /\ LookupMiss(w, id)
        => /\ revoke_calls' = revoke_calls
           /\ ret' = ReturnTrue
           /\ chat_sessions' = chat_sessions /\ sessions' = sessions
           /\ send_calls' = send_calls]_vars

(* C6's case: an echo was sent and its metadata stored, and of the two     *)
(* retractions handled since only one led to a retract call.               *)
C6_Witness ==
    /\ \E w \in DOMAIN chat_sessions : DOMAIN sessions[chat_sessions[w]].repeated_msgs # {}
    /\ n_revokes = 2
    /\ Len(revoke_calls) = 1
    /\ ret = ReturnTrue

(* The newest timestamp of a non-empty window. *)
Newest(session) ==
    CHOOSE t \in {session.messages[i].timestamp : i \in DOMAIN session.messages} :
        \A i \in DOMAIN session.messages : session.messages[i].timestamp <= t

Survives(session, current_time) ==
    session.messages # << >> /\ current_time - Newest(session) <= CacheTimeout

SweepTimes == 0 .. MaxTime + CacheTimeout + 1

(* C7: the sweep at any time keeps exactly the stored sessions with a      *)
(* non-empty window whose newest record is at most cache_timeout old, with *)
(* the same session object each, and removes the others, among them any    *)
(* session with an empty window.                                           *)
C7_Sweep ==
    \A current_time \in SweepTimes :
        /\ LET after == _clean_expired_sessions(chat_sessions, sessions, current_time)
           IN  /\ DOMAIN after = {w \in DOMAIN chat_sessions :
                                    Survives(sessions[chat_sessions[w]], current_time)}
               /\ \A w \in DOMAIN after : after[w] = chat_sessions[w]
        /\ \A empty \in Chats \ DOMAIN chat_sessions :
            LET got == _get_or_create_session(chat_sessions, sessions, empty, next_sid)
                after == _clean_expired_sessions(got.store, got.heap, current_time)
            IN  DOMAIN after = {w \in DOMAIN chat_sessions :
                                    Survives(sessions[chat_sessions[w]], current_time)}

(* C7's case: two sessions were created and one is gone; the other stayed  *)
(* through the sweep run when its newest record was cache_timeout old.     *)
C7_Witness ==
    /\ DOMAIN chat_sessions = {"p1"}
    /\ next_sid = 3
    /\ LET messages == sessions[chat_sessions["p1"]].messages
       IN  /\ Len(messages) = 2
           /\ messages[1].timestamp = now - CacheTimeout
           /\ messages[2].timestamp = now

OkSends(sid, content) ==
    {i \in SendsFor(send_calls, sid, content) : send_calls[i].status = "ok"}

(* C8: in every session the contents with echo metadata are the echoed     *)
(* contents, and each of them has a send for that content in that chat     *)
(* that returned; the metadata stored is what one of these sends gave.     *)
C8_MetadataIffEchoed ==
    \A sid \in DOMAIN sessions :
        /\ DOMAIN sessions[sid].repeated_msgs = sessions[sid].repeated_contents
        /\ \A c \in sessions[sid].repeated_contents :
            /\ \E i \in OkSends(sid, c) :
                send_calls[i].revoke_info = sessions[sid].repeated_msgs[c]
            /\ \A i \in OkSends(sid, c), w \in DOMAIN chat_sessions :
                chat_sessions[w] = sid => send_calls[i].from_wxid = w

(* C8's case: of two sends for one content the first failed and the second *)
(* returned, and the content is in both collections with the identifiers   *)
(* the second send gave.                                                   *)
C8_Witness ==
    \E w \in DOMAIN chat_sessions : \E c \in Contents :
        LET sid == chat_sessions[w]
        IN  /\ c \in sessions[sid].repeated_contents
            /\ c \in DOMAIN sessions[sid].repeated_msgs
            /\ \E i, j \in SendsFor(send_calls, sid, c) :
                /\ i < j
                /\ send_calls[i].status = "failed"
                /\ send_calls[j].status = "ok"
                /\ send_calls[j].revoke_info = sessions[sid].repeated_msgs[c]

(* C9 as stated: a content whose send failed is marked echoed all the same. *)
C9_FailedSendMarks ==
    \A i \in DOMAIN send_calls :
        (send_calls[i].status = "failed" /\ send_calls[i].sid \in DOMAIN sessions)
        => send_calls[i].content \in sessions[send_calls[i].sid].repeated_contents

(* C9 as amended: the step in which a send fails leaves every session as   *)
(* it was, so the content is not marked by it.                             *)
C9_FailedSendLeavesUnmarked ==
    [][\A i \in DOMAIN send_calls :
        (send_calls[i].status = "pending" /\ send_calls'[i].status = "failed")
        => \A sid \in DOMAIN sessions' : sessions'[sid] = sessions[sid]]_vars

(* C9's case: the send failed, the content is not echoed, and the window   *)
(* still calls for the echo, so the next such message sends again.         *)
C9_Witness ==
    \E w \in DOMAIN chat_sessions : \E i \in DOMAIN send_calls :
        /\ send_calls[i].sid = chat_sessions[w]
        /\ \A j \in SendsFor(send_calls, send_calls[i].sid, send_calls[i].content) :
            send_calls[j].status = "failed"
        /\ send_calls[i].content \notin sessions[chat_sessions[w]].repeated_contents
        /\ should_repeat(sessions[chat_sessions[w]], send_calls[i].content, BotWxid,
                         MinRepeatCount, MinDifferentUsers)

(* C10: whichever handler finished last returned True, in every            *)
(* configuration and after every transport outcome, and a handler          *)
(* suspended at its send ends as soon as the send returns or raises.       *)
C10_AlwaysContinue ==
    /\ ret \in {NoneYet, ReturnTrue}
    /\ \A i \in Pending(send_calls) : ENABLED (send_returns(i) \/ send_raises(i))

(* C10's case: a send has failed, a retract call has been made, and the    *)
(* last handler returned True.                                             *)
C10_Witness ==
    /\ ret = ReturnTrue
    /\ \E i \in DOMAIN send_calls : send_calls[i].status = "failed"
    /\ revoke_calls # << >>

----------------------------------------------------------------------------
(* C11: no step issues an echo send for a content while the window of the  *)
(* session it is issued for holds a record of that content sent by the     *)
(* bot itself, however many records and senders of the content there are.  *)
C11_SelfExclusion ==
    [][Len(send_calls') > Len(send_calls)
        => LET call == send_calls'[Len(send_calls')]
           IN  BotWxid \notin SendersOf(sessions'[call.sid], call.content)]_vars

(* C11's case: a window whose records of a content meet both thresholds,   *)
(* the bot among their senders, the content not echoed, and no send for it. *)
C11_Witness ==
    \E w \in DOMAIN chat_sessions : \E c \in Contents :
        LET session == sessions[chat_sessions[w]]
        IN  /\ BotWxid \in SendersOf(session, c)
            /\ Cardinality(SameContent(session, c)) >= MinRepeatCount
            /\ Cardinality(SendersOf(session, c)) >= MinDifferentUsers
            /\ c \notin session.repeated_contents
            /\ SendsFor(send_calls, chat_sessions[w], c) = {}
            /\ ret = ReturnTrue

(* C12: the session a handler suspended at its send holds, and will mark   *)
(* the content echoed on, is the one stored under its chat id; so no two   *)
(* ChatSession objects are in use for one chat.                            *)
C12_InFlightSessionStored ==
    \A i \in Pending(send_calls) :
        /\ send_calls[i].from_wxid \in DOMAIN chat_sessions
        /\ chat_sessions[send_calls[i].from_wxid] = send_calls[i].sid

(* The configuration refuses messages of that chat. *)
Gated(w) ==
    \/ ~enable
    \/ IsGroup(w) /\ ~enable_in_group
    \/ ~IsGroup(w) /\ ~enable_in_private

Untouched ==
    /\ chat_sessions' = chat_sessions /\ sessions' = sessions /\ next_sid' = next_sid
    /\ send_calls' = send_calls /\ revoke_calls' = revoke_calls

(* C13: handling an inbound message of a chat the configuration refuses    *)
(* (plugin disabled, or its chat type not enabled) leaves the store and    *)
(* every session as they were and issues no send; with the plugin          *)
(* disabled, handling a retraction issues no retract call and changes no   *)
(* state.                                                                  *)
C13_Gating ==
    [][/\ \A e \in TextEvents :
            handle_text(e[1], e[2], e[3], n_msgs + 1) /\ Gated(e[1]) => Untouched
       /\ \A e \in EmojiEvents :
            handle_emoji(e[1], e[2], e[3], n_msgs + 1) /\ Gated(e[1]) => Untouched
       /\ \A w \in Chats \cup {""}, id \in 0 .. MaxMsgs :
            handle_revoke(w, id) /\ ~enable => Untouched]_vars

(* C13's case: private chats are not enabled; the group's session holds    *)
(* the first message only and has expired, and the second message, the     *)
(* private one, was handled without sweeping it or creating a session.     *)
C13_Witness ==
    /\ enable /\ enable_in_group /\ ~enable_in_private
    /\ n_msgs = 2
    /\ DOMAIN chat_sessions = {"g1"}
    /\ Len(sessions[chat_sessions["g1"]].messages) = 1
    /\ is_expired(sessions[chat_sessions["g1"]], now)
    /\ ret = ReturnTrue

----------------------------------------------------------------------------
MaxRepeats == 4     \* how often the single sender of C14 repeats itself

(* The session after one sender has sent the same content k times. *)
RECURSIVE RepeatedBy(_, _, _)
RepeatedBy(session, msg_info, k) ==
    IF k = 0 THEN session ELSE add_message(RepeatedBy(session, msg_info, k - 1), msg_info)

SingleSenderNeverTriggers ==
    \A c \in Contents, s \in Senders, max_history \in 1 .. MaxHistory + 2, k \in 1 .. MaxRepeats :
        ~should_repeat(
            RepeatedBy(ChatSession(max_history),
                       [content |-> c, sender_wxid |-> s, timestamp |-> 1,
                        new_msg_id |-> 0, is_emoji |-> FALSE], k),
            c, BotWxid, MinRepeatCount, MinDifferentUsers)

(* What the handling of an accepted inbound message with that content in   *)
(* that chat does about sending, given the window it leaves.               *)
Convergent(w, c) ==
    ~Gated(w) =>
        LET session == sessions'[chat_sessions'[w]]
        IN  /\ Cardinality(SendersOf(session, c)) < 2 => send_calls' = send_calls
            /\ (/\ Cardinality(SendersOf(session, c)) >= 2
                /\ BotWxid \notin SendersOf(session, c)
                /\ c \notin session.repeated_contents)
               => /\ Len(send_calls') = Len(send_calls) + 1
                  /\ send_calls'[Len(send_calls')].content = c
                  /\ send_calls'[Len(send_calls')].from_wxid = w

(* C14: with both thresholds 2, one sender repeating a content up to       *)
(* MaxRepeats times triggers no echo, whatever the window size, and the    *)
(* handling of a message issues no send while the window's records of its  *)
(* content come from one sender; it issues a send of that content to that  *)
(* chat when they come from two or more senders, none of them the bot, and *)
(* the content is not echoed yet.                                          *)
C14_ConvergentRepetition ==
    [][/\ SingleSenderNeverTriggers
       /\ \A e \in TextEvents :
            handle_text(e[1], e[2], e[3], n_msgs + 1) => Convergent(e[1], e[3])
       /\ \A e \in EmojiEvents :
            handle_emoji(e[1], e[2], e[3], n_msgs + 1)
                => Convergent(e[1], "emoji:" \o e[3])]_vars

(* C14's case: the third message made the window hold the content from two *)
(* senders and set off the one send, still outstanding, of the run.        *)
C14_Witness ==
    /\ n_msgs = 3
    /\ Len(send_calls) = 1
    /\ send_calls[1].status = "pending"
    /\ send_calls[1].from_wxid \in DOMAIN chat_sessions
    /\ LET session == sessions[chat_sessions[send_calls[1].from_wxid]]
       IN  /\ Len(session.messages) = 2
           /\ session.messages[1].new_msg_id = 2
           /\ session.messages[2].new_msg_id = 3
           /\ session.messages[1].content = send_calls[1].content
           /\ session.messages[2].content = send_calls[1].content
           /\ session.messages[1].sender_wxid # session.messages[2].sender_wxid

----------------------------------------------------------------------------
(* The retract call a retraction of that id in that chat leads to in a     *)
(* given store, None when it leads to none.                                *)
RetractOf(store, heap, w, id) ==
    IF ~enable \/ id = 0 \/ w \notin DOMAIN store THEN None
    ELSE LET session == heap[store[w]]
         IN  IF /\ WithId(session, id) # {}
                /\ NewestWithId(session, id).content # ""
                /\ NewestWithId(session, id).content \in DOMAIN session.repeated_msgs
             THEN RetractCall(w, session.repeated_msgs[NewestWithId(session, id).content])
             ELSE None

OtherChatsUnseen(w) ==
    \A other \in Chats \ {w}, id \in 1 .. MaxMsgs :
        RetractOf(chat_sessions', sessions', other, id)
            = RetractOf(chat_sessions, sessions, other, id)

(* C15: the outbound calls issued for a chat depend on that chat's own     *)
(* events only: handling an inbound message of one chat leaves the retract *)
(* call that a retraction in any other chat leads to as it was, so two     *)
(* runs that differ in that message alone issue the same calls for the     *)
(* other chat.                                                             *)
C15_CrossChatIndependence ==
    [][/\ \A e \in TextEvents :
            handle_text(e[1], e[2], e[3], n_msgs + 1) => OtherChatsUnseen(e[1])
       /\ \A e \in EmojiEvents :
            handle_emoji(e[1], e[2], e[3], n_msgs + 1) => OtherChatsUnseen(e[1])]_vars

----------------------------------------------------------------------------
(* C16: _get_or_create_session for a chat without a stored session stores  *)
(* and returns a new ChatSession with empty window, echoed set and echo    *)
(* metadata; for a chat with a stored session it returns that object, as   *)
(* it was; either way every other chat's entry and every existing object   *)
(* stay as they were, and asking again returns the same object.            *)
C16_GetOrCreate ==
    \A w \in Chats :
        LET got == _get_or_create_session(chat_sessions, sessions, w, next_sid)
            again == _get_or_create_session(got.store, got.heap, w, next_sid + 1)
        IN  /\ w \notin DOMAIN chat_sessions =>
                /\ got.sid \notin DOMAIN sessions
                /\ got.heap[got.sid].messages = << >>
                /\ got.heap[got.sid].repeated_contents = {}
                /\ DOMAIN got.heap[got.sid].repeated_msgs = {}
            /\ w \in DOMAIN chat_sessions =>
                /\ got.sid = chat_sessions[w]
                /\ DOMAIN got.heap = DOMAIN sessions
            /\ DOMAIN got.store = DOMAIN chat_sessions \cup {w}
            /\ got.store[w] = got.sid
            /\ \A v \in DOMAIN chat_sessions \ {w} : got.store[v] = chat_sessions[v]
            /\ \A sid \in DOMAIN sessions : got.heap[sid] = sessions[sid]
            /\ again.sid = got.sid /\ again.store = got.store /\ again.heap = got.heap

(* C16's case: one chat has a session with a record, an echoed content and *)
(* its metadata, the other chat has none.                                  *)
C16_Witness ==
    /\ "g1" \in DOMAIN chat_sessions
    /\ "p1" \notin DOMAIN chat_sessions
    /\ sessions[chat_sessions["g1"]].repeated_contents # {}
    /\ DOMAIN sessions[chat_sessions["g1"]].repeated_msgs # {}
    /\ chat_sessions["g1"] > 1

----------------------------------------------------------------------------
(* What the handling of an accepted inbound message leaves: the message is *)
(* the newest record of its chat's window, and it is that window the       *)
(* decision to send is taken on.                                           *)
Triggered(w, s, c, is_emoji) ==
    LET sid == chat_sessions'[w]
        session == sessions'[sid]
        newest == session.messages[Len(session.messages)]
    IN  /\ newest = [content |-> c, sender_wxid |-> s, timestamp |-> now,
                     new_msg_id |-> n_msgs + 1, is_emoji |-> is_emoji]
        /\ IF /\ c \notin session.repeated_contents
              /\ Cardinality(SameContent(session, c)) >= MinRepeatCount
              /\ Cardinality(SendersOf(session, c)) >= MinDifferentUsers
              /\ BotWxid \notin SendersOf(session, c)
           THEN /\ Len(send_calls') = Len(send_calls) + 1
                /\ SubSeq(send_calls', 1, Len(send_calls)) = send_calls
                /\ LET call == send_calls'[Len(send_calls')]
                   IN  /\ call.from_wxid = w /\ call.content = c
                       /\ call.sid = sid /\ call.status = "pending"
           ELSE send_calls' = send_calls /\ ret' = ReturnTrue

Returned(i) == send_calls[i].status = "pending" /\ send_calls'[i].status = "ok"

(* The chat's stored session is the one the handler marked, and it holds   *)
(* the content as echoed with those identifiers.                           *)
MarkedWith(i, revoke_info) ==
    LET call == send_calls[i]
    IN  /\ call.from_wxid \in DOMAIN chat_sessions'
        /\ chat_sessions'[call.from_wxid] = call.sid
        /\ call.content \in sessions'[call.sid].repeated_contents
        /\ call.content \in DOMAIN sessions'[call.sid].repeated_msgs
        /\ sessions'[call.sid].repeated_msgs[call.content] = revoke_info
        /\ ret' = ReturnTrue

AppendedThenDecided ==
    /\ \A e \in TextEvents :
        handle_text(e[1], e[2], e[3], n_msgs + 1) /\ ~Gated(e[1])
            => Triggered(e[1], e[2], e[3], FALSE)
    /\ \A e \in EmojiEvents :
        handle_emoji(e[1], e[2], e[3], n_msgs + 1) /\ ~Gated(e[1])
            => Triggered(e[1], e[2], "emoji:" \o e[3], TRUE)

(* C17: the message is appended before detection and counts toward the   *)
(* thresholds; when the window then calls for the echo the handler issues  *)
(* exactly one send of the content to the chat before it returns, and when *)
(* that send returns the content is marked echoed in the chat's session    *)
(* with the three identifiers the send returned, as the handler returns.   *)
C17_TriggerResponse ==
    [][/\ AppendedThenDecided
       /\ \A i \in DOMAIN send_calls : Returned(i) => MarkedWith(i, SendReply(i, now))]_vars

----------------------------------------------------------------------------
(* The chat has a session, and no record of its window has that id: the    *)
(* record was pushed out by later appends, or was never there.             *)
OutOfWindow(w, id) ==
    /\ w \in DOMAIN chat_sessions
    /\ WithId(sessions[chat_sessions[w]], id) = {}

(* C18: a retraction naming an id whose record is no longer in the chat's  *)
(* window issues no retract call, whatever echo metadata the session       *)
(* holds; and no step, an evicting append included, removes an entry of a  *)
(* living session's echo metadata.                                         *)
C18_RetractOnlyInWindow ==
    [][/\ \A w \in Chats, id \in 1 .. MaxMsgs :
            handle_revoke(w, id) /\ OutOfWindow(w, id)
                => revoke_calls' = revoke_calls /\ sessions' = sessions
       /\ \A sid \in DOMAIN sessions \cap DOMAIN sessions' :
            DOMAIN sessions[sid].repeated_msgs \subseteq DOMAIN sessions'[sid].repeated_msgs]_vars

(* C18's case: all three messages went to the group's one session, the     *)
(* first has been pushed out, the content it had is echoed with metadata   *)
(* stored and no record of the window carries it any more; a retraction    *)
(* has been handled without a retract call, and the retraction of the      *)
(* first message can be handled now.                                       *)
C18_Witness ==
    /\ enable /\ enable_in_group /\ enable_in_private
    /\ n_msgs = 3 /\ next_sid = 2
    /\ DOMAIN chat_sessions = {"g1"}
    /\ LET session == sessions[chat_sessions["g1"]]
       IN  /\ WithId(session, 1) = {}
           /\ WithId(session, 2) # {} /\ WithId(session, 3) # {}
           /\ "hi" \in DOMAIN session.repeated_msgs
    /\ n_revokes = 1 /\ revoke_calls = << >>
    /\ ENABLED (handle_revoke("g1", 1) /\ revoke_calls' = revoke_calls)

----------------------------------------------------------------------------
(* C19: the handling of a retraction, whatever the retract call returns    *)
(* and whether or not it is made, leaves the store and every session's     *)
(* window, echoed set and echo metadata as they were, runs no sweep, and   *)
(* adds at most one retract call.                                          *)
C19_RevokeChangesNoState ==
    [][n_revokes' # n_revokes
        => /\ chat_sessions' = chat_sessions
           /\ sessions' = sessions
           /\ next_sid' = next_sid
           /\ send_calls' = send_calls
           /\ Len(revoke_calls') \in {Len(revoke_calls), Len(revoke_calls) + 1}
           /\ SubSeq(revoke_calls', 1, Len(revoke_calls)) = revoke_calls
           /\ ret' = ReturnTrue]_vars

(* C19's case: two retractions were handled with one retract call each;    *)
(* the group's session, expired by now, is still stored, its window still  *)
(* holds both records of the echoed content and the content is still       *)
(* echoed with the identifiers the calls carried.                          *)
C19_Witness ==
    /\ n_revokes = 2 /\ Len(revoke_calls) = 2
    /\ "g1" \in DOMAIN chat_sessions
    /\ LET session == sessions[chat_sessions["g1"]]
       IN  /\ is_expired(session, now)
           /\ Len(session.messages) = 2
           /\ \A i \in DOMAIN session.messages : session.messages[i].content = "hi"
           /\ "hi" \in session.repeated_contents
           /\ "hi" \in DOMAIN session.repeated_msgs
           /\ \A k \in DOMAIN revoke_calls :
                revoke_calls[k] = RetractCall("g1", session.repeated_msgs["hi"])

----------------------------------------------------------------------------
(* The chat's newest record is more than cache_timeout old. *)
Stale(w) == now - Newest(sessions[chat_sessions[w]]) > CacheTimeout

Echoed(store, heap, w) == IF w \in DOMAIN store THEN heap[store[w]].repeated_contents ELSE {}

(* The accepted message is handled on a session made for it. *)
OnFreshSession(w, s, c, is_emoji) ==
    /\ w \in DOMAIN chat_sessions'
    /\ chat_sessions'[w] = next_sid
    /\ chat_sessions'[w] \notin DOMAIN sessions
    /\ sessions'[chat_sessions'[w]] =
            [messages |-> <<[content |-> c, sender_wxid |-> s, timestamp |-> now,
                             new_msg_id |-> n_msgs + 1, is_emoji |-> is_emoji]>>,
             max_history |-> MaxHistory, repeated_contents |-> {}, repeated_msgs |-> << >>]

(* C20: an accepted inbound message that arrives more than cache_timeout   *)
(* after its chat's newest record is handled on a fresh session holding    *)
(* that message alone, with nothing echoed and no echo metadata; and a     *)
(* content leaves the echoed set of a chat only in the handling of an      *)
(* inbound message that finds the chat's session that old (the sweep), in  *)
(* no other step.                                                          *)
C20_EvictionOnlyReset ==
    [][/\ \A e \in TextEvents :
            (/\ handle_text(e[1], e[2], e[3], n_msgs + 1)
             /\ ~Gated(e[1]) /\ e[1] \in DOMAIN chat_sessions /\ Stale(e[1]))
            => OnFreshSession(e[1], e[2], e[3], FALSE)
       /\ \A e \in EmojiEvents :
            (/\ handle_emoji(e[1], e[2], e[3], n_msgs + 1)
             /\ ~Gated(e[1]) /\ e[1] \in DOMAIN chat_sessions /\ Stale(e[1]))
            => OnFreshSession(e[1], e[2], "emoji:" \o e[3], TRUE)
       /\ \A w \in DOMAIN chat_sessions :
            \/ Echoed(chat_sessions, sessions, w) \subseteq Echoed(chat_sessions', sessions', w)
            \/ n_msgs' = n_msgs + 1 /\ Stale(w)]_vars

(* C20's case: the content echoed in the group's first session, which was  *)
(* evicted, has been echoed again in the session that took its place.      *)
C20_Witness ==
    /\ "g1" \in DOMAIN chat_sessions
    /\ chat_sessions["g1"] > 1
    /\ send_calls[1].status = "ok" /\ send_calls[1].sid = 1
    /\ \E i \in DOMAIN send_calls :
        /\ send_calls[i].sid = chat_sessions["g1"]
        /\ send_calls[i].content = send_calls[1].content
        /\ send_calls[i].status = "ok"
    /\ send_calls[1].content \in sessions[chat_sessions["g1"]].repeated_contents

----------------------------------------------------------------------------
(* C21: with the plugin enabled, every retraction naming a non-zero id     *)
(* that a record of the chat's window carries, the record's content being  *)
(* non-empty and having echo metadata, issues a retract call of its own    *)
(* with the identifiers stored for that content, whichever record of the   *)
(* content it names and whether or not the same call was made before.      *)
C21_RetractKeyedByContent ==
    [][\A w \in Chats, id \in 1 .. MaxMsgs :
        (/\ handle_revoke(w, id)
         /\ enable
         /\ w \in DOMAIN chat_sessions
         /\ WithId(sessions[chat_sessions[w]], id) # {}
         /\ NewestWithId(sessions[chat_sessions[w]], id).content # ""
         /\ NewestWithId(sessions[chat_sessions[w]], id).content
                \in DOMAIN sessions[chat_sessions[w]].repeated_msgs)
        => LET session == sessions[chat_sessions[w]]
               content == NewestWithId(session, id).content
           IN  /\ revoke_calls' =
                    Append(revoke_calls, RetractCall(w, session.repeated_msgs[content]))
               /\ ret' = ReturnTrue]_vars

(* C21's case: the content was echoed once; a record of it that arrived    *)
(* after the echo sits in the window beside the one that set the echo off, *)
(* and two retractions have each issued the retract call with the stored   *)
(* identifiers.                                                            *)
C21_Witness ==
    /\ n_msgs = 3 /\ Len(send_calls) = 1 /\ send_calls[1].status = "ok"
    /\ "g1" \in DOMAIN chat_sessions
    /\ LET session == sessions[chat_sessions["g1"]]
           c == send_calls[1].content
       IN  /\ c # "" /\ c \in DOMAIN session.repeated_msgs
           /\ Len(session.messages) = 2
           /\ session.messages[1].content = c /\ session.messages[2].content = c
           /\ session.messages[1].new_msg_id = 2 /\ session.messages[2].new_msg_id = 3
           /\ session.messages[2].timestamp > send_calls[1].revoke_info.create_time
           /\ ~is_expired(session, now)
           /\ revoke_calls = <<RetractCall("g1", session.repeated_msgs[c]),
                               RetractCall("g1", session.repeated_msgs[c])>>
====
